---- MODULE Spec2Model ----
(***************************************************************************)
(* The file-analysis workflow of media_workflow/workflows.py               *)
(* (class FileAnalysis): staging of the input file, the asyncio.TaskGroup  *)
(* fan-out of one task per requested activity, the result dictionary       *)
(* self.results with its blocking reader get(), and the callback           *)
(* invocations of submit() and of the except block of run().               *)
(*                                                                         *)
(* Every `await start(...)` of the source is a suspension point: the       *)
(* invocation is counted in `invoked` when it is started, and a later      *)
(* action delivers its outcome (a value or an ActivityError) and runs the  *)
(* coroutine up to its next await.                                         *)
(***************************************************************************)
EXTENDS Integers, Sequences, FiniteSets, TLC

\* ------------------------------------------------------------------ bounds
MaxActivities == 2     \* largest number of names in request["activities"]
MaxImages == 1         \* largest number of images a sprite/thumbnail step yields
NumValues == 2         \* distinct values an activity can return
NumGetters == 1        \* concurrent get() updates
MaxWrites == 2         \* calls of submit with one key, when submit is run on its own
MaxStatus == 599       \* largest HTTP status the callback URL answers with
MaxStrLen == 2         \* characters of a string of the model's JSON output
SampleBits == 2        \* width of an audio sample (16 in np.int16)
MaxLen == 3            \* audio samples of an input
MaxSamples == 3        \* largest num_samples

\* ------------------------------------------------------------- vocabulary
None == "None"
WorkflowId == "wf-1"

\* the names tested by the `if ... in request["activities"]` chain of run
Activities ==
  { "image-thumbnail", "image-detail", "image-detail-basic",
    "image-color-palette", "video-metadata", "video-sprite",
    "video-transcode", "audio-waveform", "document-thumbnail",
    "font-thumbnail", "font-metadata", "font-detail" }

\* a name no branch of run recognises
Unknown == "bogus"

\* names a request is drawn from: two pipelines of one invocation, one of
\* several invocations ending in a gather, and Unknown
RequestNames ==
  { "video-metadata", "audio-waveform", "video-sprite", Unknown }

\* keys get is called with
GetKeys == { "video-metadata", "video-sprite" }

Values == 1..NumValues
Getters == 1..NumGetters

\* the sequential `await start(...)` invocations of each task coroutine
Pipeline(a) ==
  CASE a = "image-thumbnail"     -> <<"image.thumbnail", "utils.upload">>
    [] a = "image-detail"        -> <<"image.thumbnail", "utils.upload", "image.detail">>
    [] a = "image-detail-basic"  -> <<"image.thumbnail", "image.minicpm_basic",
                                      "image.minicpm_tags", "image.minicpm_details">>
    [] a = "image-color-palette" -> <<"image.color_palette">>
    [] a = "video-metadata"      -> <<"video.metadata">>
    [] a = "video-sprite"        -> <<"video.metadata", "video.sprite">>
    [] a = "video-transcode"     -> <<"video.transcode", "utils.upload">>
    [] a = "audio-waveform"      -> <<"video.waveform">>
    [] a = "document-thumbnail"  -> <<"document.to_pdf", "document.thumbnail">>
    [] a = "font-thumbnail"      -> <<"font.thumbnail", "utils.upload">>
    [] a = "font-metadata"       -> <<"font.metadata">>
    [] a = "font-detail"         -> <<"font.thumbnail", "utils.upload",
                                      "font.metadata", "font.detail">>

\* the task coroutines that end with asyncio.gather over one upload per image
Gathers(a) == a \in {"video-sprite", "document-thumbnail"}

StagingInvocations == {"utils.datadir", "utils.download"}
TaskInvocations == UNION { {Pipeline(a)[i] : i \in 1..Len(Pipeline(a))} : a \in Activities }
Invocations == StagingInvocations \cup TaskInvocations \cup {"callback"}

\* ------------------------------------------------------------------ state
VARIABLES
  request,   \* the argument of run: [file, activities, callback]
  pc,        \* position of run: datadir, download, taskgroup, failcallback,
             \* returned, raised; timedout when the workflow was closed under it
  datadir,   \* local `datadir` of run
  file,      \* local `file` of run
  tasks,     \* the tasks of the TaskGroup, by activity name
  errors,    \* TaskGroup._errors: exceptions of failed tasks, in order
  aborting,  \* TaskGroup._aborting
  results,   \* self.results
  writes,    \* number of assignments self.results[k] = ... made, by key
  invoked,   \* number of times each activity function was started
  err,       \* the exception caught by `except Exception as err`
  outcome,   \* what run returned or raised
  getters,   \* the get() update handlers: state, key, value returned, and
             \* whether get returned after run caught its exception
  sent,      \* the JSON bodies the callback activity was started with, each
             \* with the number of times: [result |-> those of submit,
             \* error |-> those of the except block of run]
  other,     \* a second FileAnalysis instance run from the same request:
             \* the dictionary its self.results refers to, that dictionary
             \* when it is its own, the keys its tasks wrote, what its get returned
  call       \* an activity function run on its own: name, input, outcome

vars == <<request, pc, datadir, file, tasks, errors, aborting, results,
          writes, invoked, err, outcome, getters, sent, other, call>>

NoTask == [st |-> "none", step |-> 0, left |-> 0]

Live == {"running", "gather", "callback"}
Terminal == {"succeeded", "failed", "cancelled"}

Requests ==
  { [file |-> "a.mp4", activities |-> A, callback |-> cb] :
      A \in {S \in SUBSET RequestNames : Cardinality(S) <= MaxActivities},
      cb \in {None, "http://cb"} }

\* no exception, and no outcome yet
NoError == [type |-> "None"]
Pending == [kind |-> "pending"]

ActivityError(inv, task) == [type |-> "ActivityError", activity |-> inv, task |-> task]

Bump(f, S) == [n \in DOMAIN f |-> IF n \in S THEN f[n] + 1 ELSE f[n]]

\* no second instance, and no activity function run on its own
NoInstance == [ref |-> 0, results |-> <<>>, written |-> {}, got |-> <<>>]
NoCall == [fn |-> "none", arg |-> 0, out |-> "none"]

\* the state when run is called with req, its first invocation started, and
\* the update handlers G not yet called
InitWith(req, G) ==
  /\ request = req
  /\ pc = "datadir"
  /\ datadir = None
  /\ file = None
  /\ tasks = [a \in Activities |-> NoTask]
  /\ errors = <<>>
  /\ aborting = FALSE
  /\ results = <<>>
  /\ writes = [a \in Activities |-> 0]
  /\ invoked = [n \in Invocations |-> IF n = "utils.datadir" THEN 1 ELSE 0]
  /\ err = NoError
  /\ outcome = Pending
  /\ getters = [g \in G |-> [st |-> "idle", key |-> None, val |-> None, late |-> FALSE]]
  /\ sent = [result |-> <<>>, error |-> <<>>]
  /\ other = NoInstance
  /\ call = NoCall

Init == \E req \in Requests : InitWith(req, Getters)

\* ------------------------------------------------------- pure operations
\* a task coroutine copied from another with its `activity` local left as it was
ActivityName_copied(a) == IF a = "video-sprite" THEN "video-metadata" ELSE a

\* the local `activity = "..."` each task coroutine passes to submit
ActivityName(a) == a

\* self.results = {activity: result}: the dictionary is rebuilt
submit_results_rebuilt(res, activity, result) == [k \in {activity} |-> result]

\* self.results[activity] = result
submit_results(res, activity, result) ==
  [k \in DOMAIN res \cup {activity} |-> IF k = activity THEN result ELSE res[k]]

\* a wait of get that any key of the dictionary satisfies
get_condition_any(key, res) == res # <<>>

\* get without its wait
get_condition_absent(key, res) == TRUE

\* the condition of workflow.wait_condition in get
get_condition(key, res) == key \in DOMAIN res

\* the return value of get
get_value(key, res) == IF key \in DOMAIN res THEN res[key] ELSE "KeyError"

\* the TaskGroup body with the test of "video-metadata" lost
create_tasks_untested(req) ==
  [a \in Activities |->
     IF a \in req.activities \/ a = "video-metadata"
     THEN [st |-> "running", step |-> 1, left |-> 0]
     ELSE NoTask]

\* the body of `async with asyncio.TaskGroup() as tg`: one create_task for
\* each recognised name that is in request["activities"]; each new task runs
\* to its first await, the first invocation of its pipeline
create_tasks(req) ==
  [a \in Activities |->
     IF a \in req.activities THEN [st |-> "running", step |-> 1, left |-> 0]
     ELSE NoTask]

\* TaskGroup._abort: cancel every task that is not done
tg_abort(ts) ==
  [a \in DOMAIN ts |->
     IF ts[a].st \in Live THEN [ts[a] EXCEPT !.st = "cancelled"] ELSE ts[a]]

\* a TaskGroup exit that is never woken
tg_all_done_never(ts) == FALSE

\* a TaskGroup exit that does not wait for its tasks
tg_all_done_unawaited(ts) == TRUE

\* TaskGroup.__aexit__ waits until no task is left running
tg_all_done(ts) == \A a \in DOMAIN ts : ts[a].st \notin Live

\* a join that drops the tasks' exceptions (gather(return_exceptions=True))
tg_raises_never(errs) == FALSE

\* TaskGroup.__aexit__ raises when a task left an exception
tg_raises(errs) == errs # <<>>

\* a summary that echoes the request without its callback URL
summary_stripped(req, res) ==
  [id |-> WorkflowId, request |-> [req EXCEPT !.callback = None], result |-> res]

\* the value `return {...}` of run
summary(req, res) == [id |-> WorkflowId, request |-> req, result |-> res]

\* one more start of the callback activity with body p
Count(b, p) == IF p \in DOMAIN b THEN b[p] ELSE 0
AddTo(b, p) == [q \in DOMAIN b \cup {p} |-> IF q = p THEN Count(b, p) + 1 ELSE b[q]]

\* str(err): an ExceptionGroup prints its message and the number of its
\* sub-exceptions, an ActivityError its message
str(e) ==
  IF e.type = "ExceptionGroup"
  THEN [message |-> "unhandled errors in a TaskGroup", sub_exceptions |-> Len(e.errors)]
  ELSE [message |-> "Activity task failed", sub_exceptions |-> 0]

\* a response whose result is not keyed by the activity
response_unkeyed(req, activity, result) ==
  [id |-> WorkflowId, request |-> req, result |-> [k \in {"result"} |-> result]]

\* `response` of submit
response(req, activity, result) ==
  [id |-> WorkflowId, request |-> req, result |-> [k \in {activity} |-> result]]

\* `data` of the except block of run
data(req, e) == [id |-> WorkflowId, request |-> req, error |-> str(e)]

\* ----------------------------------------------------------- run: staging
\* an except block that starts the callback whatever the request holds
except_block_unconditional(e, inv) ==
  /\ err' = e
  /\ invoked' = Bump(inv, {"callback"})
  /\ sent' = [sent EXCEPT !.error = AddTo(@, data(request, e))]
  /\ pc' = "failcallback"
  /\ outcome' = outcome

\* an except block that only re-raises
except_block_silent(e, inv) ==
  /\ err' = e
  /\ invoked' = inv
  /\ sent' = sent
  /\ pc' = "raised"
  /\ outcome' = [kind |-> "raised", value |-> e]

\* the `except Exception as err` block of run, entered with exception e,
\* where inv is the invocation count at that point
except_block(e, inv) ==
  /\ err' = e
  /\ IF request.callback # None
     THEN /\ invoked' = Bump(inv, {"callback"})
          /\ sent' = [sent EXCEPT !.error = AddTo(@, data(request, e))]
          /\ pc' = "failcallback"
          /\ outcome' = outcome
     ELSE /\ invoked' = inv
          /\ sent' = sent
          /\ pc' = "raised"
          /\ outcome' = [kind |-> "raised", value |-> e]

\* utils.datadir returned: run goes on to start utils.download
datadir_return ==
  /\ pc = "datadir"
  /\ datadir' = "/datadir"
  /\ invoked' = Bump(invoked, {"utils.download"})
  /\ pc' = "download"
  /\ UNCHANGED <<request, file, tasks, errors, aborting, results, writes,
                 err, outcome, getters, sent,
                 other, call>>

\* utils.datadir failed
datadir_fail ==
  /\ pc = "datadir"
  /\ except_block(ActivityError("utils.datadir", None), invoked)
  /\ UNCHANGED <<request, datadir, file, tasks, errors, aborting, results,
                 writes, getters,
                 other, call>>

\* utils.download returned: run enters the TaskGroup and creates the tasks
download_return ==
  /\ pc = "download"
  /\ file' = "/datadir/a.mp4"
  /\ tasks' = create_tasks(request)
  /\ invoked' = [n \in DOMAIN invoked |->
                   invoked[n] + Cardinality({a \in Activities :
                       /\ tasks'[a].st = "running"
                       /\ Pipeline(a)[1] = n})]
  /\ pc' = "taskgroup"
  /\ UNCHANGED <<request, datadir, errors, aborting, results, writes, err,
                 outcome, getters, sent,
                 other, call>>

\* a failed download that run swallows and goes on from
download_fail_swallowed ==
  /\ pc = "download"
  /\ tasks' = create_tasks(request)
  /\ invoked' = [n \in DOMAIN invoked |->
                   invoked[n] + Cardinality({a \in Activities :
                       /\ tasks'[a].st = "running"
                       /\ Pipeline(a)[1] = n})]
  /\ pc' = "taskgroup"
  /\ UNCHANGED <<request, datadir, file, errors, aborting, results, writes,
                 err, outcome, getters, sent,
                 other, call>>

\* utils.download failed
download_fail ==
  /\ pc = "download"
  /\ except_block(ActivityError("utils.download", None), invoked)
  /\ UNCHANGED <<request, datadir, file, tasks, errors, aborting, results,
                 writes, getters,
                 other, call>>

\* -------------------------------------------------------------- the tasks
\* a submit that starts the callback and does not await it
submit_detached(a, result, inv) ==
  /\ results' = submit_results(results, ActivityName(a), result)
  /\ writes' = Bump(writes, {ActivityName(a)})
  /\ invoked' = IF request.callback # None THEN Bump(inv, {"callback"}) ELSE inv
  /\ sent' = IF request.callback # None
             THEN [sent EXCEPT !.result =
                     AddTo(@, response(request, ActivityName(a), result))]
             ELSE sent
  /\ tasks' = [tasks EXCEPT ![a] = [st |-> "succeeded", step |-> 0, left |-> 0]]

\* submit(activity, request, result), called by task a, up to its await
submit(a, result, inv) ==
  /\ results' = submit_results(results, ActivityName(a), result)
  /\ writes' = Bump(writes, {ActivityName(a)})
  /\ IF request.callback # None
     THEN /\ invoked' = Bump(inv, {"callback"})
          /\ sent' = [sent EXCEPT !.result =
                       AddTo(@, response(request, ActivityName(a), result))]
          /\ tasks' = [tasks EXCEPT ![a] = [st |-> "callback", step |-> 0, left |-> 0]]
     ELSE /\ invoked' = inv
          /\ sent' = sent
          /\ tasks' = [tasks EXCEPT ![a] = [st |-> "succeeded", step |-> 0, left |-> 0]]

\* a coroutine that goes from its first invocation to its last
step_return_skipping(a) ==
  /\ tasks[a].st = "running"
  /\ tasks[a].step < Len(Pipeline(a))
  /\ tasks' = [tasks EXCEPT ![a].step = Len(Pipeline(a))]
  /\ invoked' = Bump(invoked, {Pipeline(a)[Len(Pipeline(a))]})
  /\ UNCHANGED <<request, pc, datadir, file, errors, aborting, results,
                 writes, err, outcome, getters, sent,
                 other, call>>

\* an invocation of task a that is not its last returned: start the next one
step_return(a) ==
  /\ tasks[a].st = "running"
  /\ tasks[a].step < Len(Pipeline(a))
  /\ tasks' = [tasks EXCEPT ![a].step = @ + 1]
  /\ invoked' = Bump(invoked, {Pipeline(a)[tasks[a].step + 1]})
  /\ UNCHANGED <<request, pc, datadir, file, errors, aborting, results,
                 writes, err, outcome, getters, sent,
                 other, call>>

\* the last invocation of a task without gather returned `result`
last_return(a, result) ==
  /\ tasks[a].st = "running"
  /\ tasks[a].step = Len(Pipeline(a))
  /\ ~Gathers(a)
  /\ submit(a, result, invoked)
  /\ UNCHANGED <<request, pc, datadir, file, errors, aborting, err, outcome,
                 getters,
                 other, call>>

\* video.sprite / document.thumbnail returned n images: gather one upload
\* for each; gather of nothing is done at once with the empty list
images_return(a, n, result) ==
  /\ tasks[a].st = "running"
  /\ tasks[a].step = Len(Pipeline(a))
  /\ Gathers(a)
  /\ IF n = 0
     THEN submit(a, result, invoked)
     ELSE /\ tasks' = [tasks EXCEPT ![a] = [st |-> "gather", step |-> 0, left |-> n]]
          /\ invoked' = [invoked EXCEPT !["utils.upload"] = @ + n]
          /\ UNCHANGED <<results, writes, sent>>
  /\ UNCHANGED <<request, pc, datadir, file, errors, aborting, err, outcome,
                 getters,
                 other, call>>

\* one of the gathered uploads returned; the last one completes the gather
gather_return(a, result) ==
  /\ tasks[a].st = "gather"
  /\ IF tasks[a].left > 1
     THEN /\ tasks' = [tasks EXCEPT ![a].left = @ - 1]
          /\ UNCHANGED <<results, writes, invoked, sent>>
     ELSE submit(a, result, invoked)
  /\ UNCHANGED <<request, pc, datadir, file, errors, aborting, err, outcome,
                 getters,
                 other, call>>

\* the invocation task a awaits
awaited(a) ==
  CASE tasks[a].st = "running" -> Pipeline(a)[tasks[a].step]
    [] tasks[a].st = "gather" -> "utils.upload"
    [] tasks[a].st = "callback" -> "callback"

\* the invocation task a awaits failed: the exception leaves the coroutine
\* and the TaskGroup records it
task_fail(a) ==
  /\ tasks[a].st \in Live
  /\ tasks' = [tasks EXCEPT ![a].st = "failed"]
  /\ errors' = Append(errors, ActivityError(awaited(a), a))
  /\ UNCHANGED <<request, pc, datadir, file, aborting, results, writes,
                 invoked, err, outcome, getters, sent,
                 other, call>>

\* the callback invocation of submit returned: the task is done
callback_return(a) ==
  /\ tasks[a].st = "callback"
  /\ tasks' = [tasks EXCEPT ![a].st = "succeeded"]
  /\ UNCHANGED <<request, pc, datadir, file, errors, aborting, results,
                 writes, invoked, err, outcome, getters, sent,
                 other, call>>

\* TaskGroup._on_task_done of the first failed task: abort the others
on_task_done ==
  /\ errors # <<>>
  /\ ~aborting
  /\ aborting' = TRUE
  /\ tasks' = tg_abort(tasks)
  /\ UNCHANGED <<request, pc, datadir, file, errors, results, writes,
                 invoked, err, outcome, getters, sent,
                 other, call>>

\* a run that also starts the callback with its summary before it returns
join_notifying ==
  /\ pc = "taskgroup"
  /\ tg_all_done(tasks)
  /\ errors # <<>> => aborting
  /\ IF tg_raises(errors)
     THEN except_block([type |-> "ExceptionGroup", errors |-> errors], invoked)
     ELSE /\ pc' = "returned"
          /\ outcome' = [kind |-> "returned", value |-> summary(request, results)]
          /\ invoked' = IF request.callback # None
                        THEN Bump(invoked, {"callback"}) ELSE invoked
          /\ sent' = IF request.callback # None
                     THEN [sent EXCEPT !.error = AddTo(@, summary(request, results))]
                     ELSE sent
          /\ UNCHANGED err
  /\ UNCHANGED <<request, datadir, file, tasks, errors, aborting, results,
                 writes, getters,
                 other, call>>

\* TaskGroup.__aexit__ once every task is done, and what follows it in run
join ==
  /\ pc = "taskgroup"
  /\ tg_all_done(tasks)
  /\ errors # <<>> => aborting
  /\ IF tg_raises(errors)
     THEN except_block([type |-> "ExceptionGroup", errors |-> errors], invoked)
     ELSE /\ pc' = "returned"
          /\ outcome' = [kind |-> "returned", value |-> summary(request, results)]
          /\ UNCHANGED <<err, invoked, sent>>
  /\ UNCHANGED <<request, datadir, file, tasks, errors, aborting, results,
                 writes, getters,
                 other, call>>

\* the callback invocation of the except block returned: `raise`
failcallback_return ==
  /\ pc = "failcallback"
  /\ pc' = "raised"
  /\ outcome' = [kind |-> "raised", value |-> err]
  /\ UNCHANGED <<request, datadir, file, tasks, errors, aborting, results,
                 writes, invoked, err, getters, sent,
                 other, call>>

\* the callback invocation of the except block failed: its exception
\* leaves run in place of err
failcallback_fail ==
  /\ pc = "failcallback"
  /\ pc' = "raised"
  /\ outcome' = [kind |-> "raised", value |-> ActivityError("callback", None)]
  /\ UNCHANGED <<request, datadir, file, tasks, errors, aborting, results,
                 writes, invoked, err, getters, sent,
                 other, call>>

\* -------------------------------------------------------------------- get
\* an update get(key) arrives and waits on its condition
get_call(g, key) ==
  /\ getters[g].st = "idle"
  /\ getters' = [getters EXCEPT ![g] = [st |-> "waiting", key |-> key, val |-> None, late |-> FALSE]]
  /\ UNCHANGED <<request, pc, datadir, file, tasks, errors, aborting,
                 results, writes, invoked, err, outcome, sent,
                 other, call>>

\* the condition of a waiting get holds: it returns self.results[key]
get_return(g) ==
  /\ getters[g].st = "waiting"
  /\ get_condition(getters[g].key, results)
  /\ getters' = [getters EXCEPT ![g] = [st |-> "returned", key |-> @.key,
                                        val |-> get_value(@.key, results),
                                        late |-> pc \in {"failcallback", "raised"}]]
  /\ UNCHANGED <<request, pc, datadir, file, tasks, errors, aborting,
                 results, writes, invoked, err, outcome, sent,
                 other, call>>

\* ---------------------------------------------------------- specification
Next ==
  \/ datadir_return
  \/ datadir_fail
  \/ download_return
  \/ download_fail
  \/ \E a \in Activities : step_return(a)
  \/ \E a \in Activities, v \in Values : last_return(a, v)
  \/ \E a \in Activities, n \in 0..MaxImages, v \in Values : images_return(a, n, v)
  \/ \E a \in Activities, v \in Values : gather_return(a, v)
  \/ \E a \in Activities : task_fail(a)
  \/ \E a \in Activities : callback_return(a)
  \/ on_task_done
  \/ join
  \/ failcallback_return
  \/ failcallback_fail
  \/ \E g \in Getters, k \in GetKeys : get_call(g, k)
  \/ \E g \in Getters : get_return(g)

Spec == Init /\ [][Next]_vars

\* the workflow's timeout passes while run is not finished: the workflow is
\* closed from outside, and neither run nor its tasks are resumed
job_timeout ==
  /\ pc \in {"datadir", "download", "taskgroup", "failcallback"}
  /\ pc' = "timedout"
  /\ outcome' = [kind |-> "timedout"]
  /\ UNCHANGED <<request, datadir, file, tasks, errors, aborting, results,
                 writes, invoked, err, getters, sent,
                 other, call>>

NextTimeout ==
  \/ pc # "timedout" /\ Next
  \/ job_timeout

SpecTimeout == Init /\ [][NextTimeout]_vars

\* ---------------------------------------------- run without its updates
\* the steps of run and of its tasks
JobNext ==
  \/ datadir_return
  \/ datadir_fail
  \/ download_return
  \/ download_fail
  \/ \E a \in Activities : step_return(a)
  \/ \E a \in Activities, v \in Values : last_return(a, v)
  \/ \E a \in Activities, n \in 0..MaxImages, v \in Values : images_return(a, n, v)
  \/ \E a \in Activities, v \in Values : gather_return(a, v)
  \/ \E a \in Activities : task_fail(a)
  \/ \E a \in Activities : callback_return(a)
  \/ on_task_done
  \/ join
  \/ failcallback_return
  \/ failcallback_fail

SpecJob == Init /\ [][JobNext]_vars

\* every invocation that was started returns or fails, and every coroutine
\* that can go on is scheduled
SpecFair == Init /\ [][JobNext]_vars /\ WF_vars(JobNext)

\* ------------------------------------- the pipelines of several invocations
PipelineNames == {"image-detail", "font-detail"}

PipelineRequests ==
  { [file |-> "a.png", activities |-> A, callback |-> cb] :
      A \in SUBSET PipelineNames \ {{}}, cb \in {None, "http://cb"} }

InitPipelines == \E req \in PipelineRequests : InitWith(req, Getters)

NextPipelines ==
  \/ datadir_return
  \/ download_return
  \/ \E a \in Activities : step_return(a)
  \/ \E a \in Activities, v \in Values : last_return(a, v)
  \/ \E a \in Activities : task_fail(a)
  \/ \E a \in Activities : callback_return(a)
  \/ on_task_done
  \/ join
  \/ failcallback_return

SpecPipelines == InitPipelines /\ [][NextPipelines]_vars

\* the number of invocations of its pipeline task a has started
Reached(a) ==
  CASE tasks[a].st = "none" -> 0
    [] tasks[a].step > 0 -> tasks[a].step
    [] OTHER -> Len(Pipeline(a))

\* the number of tasks that have started invocation n
Started(n) ==
  Cardinality({a \in Activities : \E j \in 1..Reached(a) : Pipeline(a)[j] = n})

\* ------------------------------------------------------ several get updates
ManyGetters == 1..(NumGetters + 1)

GetRequests ==
  { [file |-> "a.mp4", activities |-> A, callback |-> None] :
      A \in SUBSET GetKeys \ {{}} }

InitGetters == \E req \in GetRequests : InitWith(req, ManyGetters)

NextGetters ==
  \/ datadir_return
  \/ download_return
  \/ \E a \in Activities : step_return(a)
  \/ \E a \in Activities, v \in Values : last_return(a, v)
  \/ \E a \in Activities, n \in 0..MaxImages, v \in Values : images_return(a, n, v)
  \/ \E a \in Activities, v \in Values : gather_return(a, v)
  \/ join
  \/ \E g \in ManyGetters, k \in GetKeys : get_call(g, k)
  \/ \E g \in ManyGetters : get_return(g)

SpecGetters == InitGetters /\ [][NextGetters]_vars

\* ------------------------------------------------ submit run on its own
\* submit(activity, request, result) called for any recognised requested
\* name, whether or not the dictionary has that key
submit_call(a, result) ==
  /\ a \in request.activities
  /\ writes[ActivityName(a)] < MaxWrites
  /\ submit(a, result, invoked)
  /\ UNCHANGED <<request, pc, datadir, file, errors, aborting, err, outcome,
                 getters, other, call>>

NextSubmit == \E a \in Activities, v \in Values : submit_call(a, v)

SpecSubmit == Init /\ [][NextSubmit]_vars

\* ------------------------------------------------------ a second instance
\* a class attribute in place of the assignment in __init__: every instance
\* refers to the dictionary of the first
init_results_shared(j) == 1

\* __init__: self.results = {} gives instance j a dictionary of its own
init_results(j) == j

\* the dictionary self.results of the second instance refers to
other_results == IF other.ref = 1 THEN results ELSE other.results

\* the second instance is constructed
other_init ==
  /\ other.ref = 0
  /\ other' = [other EXCEPT !.ref = init_results(2)]
  /\ UNCHANGED <<request, pc, datadir, file, tasks, errors, aborting, results,
                 writes, invoked, err, outcome, getters, sent, call>>

\* the task of the second instance for the requested name a reaches
\* self.results[activity] = result of submit
other_submit(a, result) ==
  /\ other.ref # 0
  /\ a \in request.activities
  /\ a \notin other.written
  /\ IF other.ref = 1
     THEN /\ results' = submit_results(results, ActivityName(a), result)
          /\ other' = [other EXCEPT !.written = @ \cup {a}]
     ELSE /\ results' = results
          /\ other' = [other EXCEPT
                         !.results = submit_results(@, ActivityName(a), result),
                         !.written = @ \cup {a}]
  /\ UNCHANGED <<request, pc, datadir, file, tasks, errors, aborting, writes,
                 invoked, err, outcome, getters, sent, call>>

\* a get(key) on the second instance returns
other_get(key) ==
  /\ other.ref # 0
  /\ other.got = <<>>
  /\ get_condition(key, other_results)
  /\ other' = [other EXCEPT !.got = <<key, get_value(key, other_results)>>]
  /\ UNCHANGED <<request, pc, datadir, file, tasks, errors, aborting, results,
                 writes, invoked, err, outcome, getters, sent, call>>

\* both instances are run from a request for pipelines of one invocation,
\* with no callback URL, and no invocation of the first fails
TwoJobsRequests ==
  { [file |-> "a.mp4", activities |-> A, callback |-> None] :
      A \in SUBSET {"video-metadata", "audio-waveform"} \ {{}} }

InitTwoJobs == \E req \in TwoJobsRequests : InitWith(req, Getters)

NextTwoJobs ==
  \/ datadir_return
  \/ download_return
  \/ \E a \in Activities, v \in Values : last_return(a, v)
  \/ join
  \/ \E g \in Getters, k \in GetKeys : get_call(g, k)
  \/ \E g \in Getters : get_return(g)
  \/ other_init
  \/ \E a \in Activities, v \in Values : other_submit(a, v)
  \/ \E k \in GetKeys : other_get(k)

SpecTwoJobs == InitTwoJobs /\ [][NextTwoJobs]_vars

\* ------------------------------------- the callback activity on its own
\* the status the callback activity compares r.status with
StatusOK == 200

\* what session.post(url, json=json) gives: a response with a status, or an
\* exception of the client when no response arrives
Responses ==
  { [kind |-> "response", status |-> st] : st \in 100..MaxStatus }
    \cup { [kind |-> "error", status |-> 0] }

\* callback(url, json), by what the POST gives: the exception of the client
\* leaves it, a status other than 200 raises, anything else returns None
callback(r) ==
  IF r.kind = "error" THEN "raised"
  ELSE IF r.status # StatusOK THEN "raised"
  ELSE "returned"

\* the activity is run and the POST gives r
callback_call(r) ==
  /\ call = NoCall
  /\ call' = [fn |-> "callback", arg |-> r, out |-> callback(r)]
  /\ UNCHANGED <<request, pc, datadir, file, tasks, errors, aborting, results,
                 writes, invoked, err, outcome, getters, sent, other>>

NextCallback == \E r \in Responses : callback_call(r)

SpecCallback == Init /\ [][NextCallback]_vars

\* ------------------------------------ postprocess of the image analyses
\* characters of the model's output: an ASCII letter, a character outside
\* ASCII, and the two commas image_analysis_tags splits at
Chars == {"a", "Zh", ",", "FullwidthComma"}
AsciiChars == {"a", ","}

RECURSIVE StrsOfLen(_)
StrsOfLen(n) ==
  IF n = 0 THEN {<<>>}
  ELSE {Append(t, c) : t \in StrsOfLen(n - 1), c \in Chars}

Strs == UNION {StrsOfLen(n) : n \in 0..MaxStrLen}

\* params["language"] and str.lower of it
Languages == {"English", "english", "Chinese"}
lower(lang) == IF lang = "English" THEN "english" ELSE lang

\* str.isascii: true of the empty string
isascii(t) == \A i \in 1..Len(t) : t[i] \in AsciiChars

\* an output text in English: not empty, and ASCII throughout
english(t) == t # <<>> /\ isascii(t)

\* re.split(",|\uff0c", value): the pieces between the commas, in order
RECURSIVE split(_, _)
split(t, piece) ==
  IF t = <<>> THEN <<piece>>
  ELSE IF Head(t) \in {",", "FullwidthComma"}
       THEN <<piece>> \o split(Tail(t), <<>>)
       ELSE split(Tail(t), Append(piece, Head(t)))

\* the generator of image_analysis_tags: every piece of every value
RECURSIVE subvalues(_)
subvalues(list) ==
  IF list = <<>> THEN <<>> ELSE split(Head(list), <<>>) \o subvalues(Tail(list))

\* a value of the JSON of image_analysis_details after its loop over keys:
\* a string, or None where the key was missing or not a string
JsonNull == [type |-> "null", s |-> <<>>]
JsonStr(t) == [type |-> "str", s |-> t]
truthy(v) == v.type = "str" /\ v.s # <<>>

\* postprocess of image_analysis_basic, on {"title": ..., "description": ...}
image_analysis_basic(language, json) ==
  IF isascii(json.title) \/ isascii(json.description) THEN "raised" ELSE "returned"

\* postprocess of image_analysis_tags, on the list under one of its keys
image_analysis_tags(language, list) ==
  IF /\ lower(language) # "english"
     /\ \E i \in 1..Len(subvalues(list)) : isascii(subvalues(list)[i])
  THEN "raised" ELSE "returned"

\* postprocess of image_analysis_details, on the value under one of its keys
image_analysis_details(language, value) ==
  IF lower(language) # "english" /\ truthy(value) /\ isascii(value.s)
  THEN "raised" ELSE "returned"

\* the JSON outputs the three steps are run on
BasicOutputs == [title : Strs, description : Strs]
TagsOutputs == {<<t>> : t \in Strs} \cup {<<t, u>> : t \in Strs, u \in Strs}
DetailsOutputs == {JsonNull} \cup {JsonStr(t) : t \in Strs}

postprocess_basic(language, json) ==
  /\ call = NoCall
  /\ call' = [fn |-> "image_analysis_basic",
              arg |-> [language |-> language, ascii |-> english(json.title) /\ english(json.description), json |-> json],
              out |-> image_analysis_basic(language, json)]
  /\ UNCHANGED <<request, pc, datadir, file, tasks, errors, aborting, results,
                 writes, invoked, err, outcome, getters, sent, other>>

postprocess_tags(language, list) ==
  /\ call = NoCall
  /\ call' = [fn |-> "image_analysis_tags",
              arg |-> [language |-> language, ascii |-> \A i \in 1..Len(list) : english(list[i]), json |-> list],
              out |-> image_analysis_tags(language, list)]
  /\ UNCHANGED <<request, pc, datadir, file, tasks, errors, aborting, results,
                 writes, invoked, err, outcome, getters, sent, other>>

postprocess_details(language, value) ==
  /\ call = NoCall
  /\ call' = [fn |-> "image_analysis_details",
              arg |-> [language |-> language, ascii |-> english(value.s), json |-> value],
              out |-> image_analysis_details(language, value)]
  /\ UNCHANGED <<request, pc, datadir, file, tasks, errors, aborting, results,
                 writes, invoked, err, outcome, getters, sent, other>>

NextPostprocess ==
  \/ \E l \in Languages, j \in BasicOutputs : postprocess_basic(l, j)
  \/ \E l \in Languages, j \in TagsOutputs : postprocess_tags(l, j)
  \/ \E l \in Languages, j \in DetailsOutputs : postprocess_details(l, j)

SpecPostprocess == Init /\ [][NextPostprocess]_vars

\* ----------------------------------------------------------- the waveform
\* the values of a signed sample of SampleBits bits
MinSample == -(2 ^ (SampleBits - 1))
SampleValues == MinSample..(-MinSample - 1)

\* the decoded audio: np.frombuffer(stdout, dtype=np.int16)
AudioData == UNION {[1..k -> SampleValues] : k \in 0..MaxLen}

\* np.abs on the sample type: the least value has no positive counterpart
\* in the width and stays as it is
np_abs(x) == IF x = MinSample THEN MinSample ELSE IF x < 0 THEN -x ELSE x

np_max(S) == CHOOSE m \in S : \A x \in S : x <= m

\* math.ceil(len(data) / num_samples)
ceil_div(a, b) == (a + b - 1) \div b

\* range(0, len(data), step), for step > 0
range(len, step) == {i \in 0..(len - 1) : i % step = 0}

\* np.max(np.abs(data[i : i + step])), data indexed from 0 as in the code
bucket(pcm, i, step) ==
  np_max({np_abs(pcm[j + 1]) : j \in {k \in i..(i + step - 1) : k < Len(pcm)}})

\* samples[k] after the loop: zero where the loop assigned nothing
samples_at(pcm, step, k) ==
  IF k * step \in range(Len(pcm), step) THEN bucket(pcm, k * step, step) ELSE 0

\* the float division s / m of numpy: a quotient, or nan, inf, -inf when m = 0
np_divide(s, m) ==
  IF m # 0 THEN [kind |-> "num", num |-> s, den |-> m]
  ELSE IF s = 0 THEN [kind |-> "nan", num |-> s, den |-> m]
  ELSE IF s > 0 THEN [kind |-> "inf", num |-> s, den |-> m]
  ELSE [kind |-> "-inf", num |-> s, den |-> m]

\* waveform(params) from the decoded data on: range raises ValueError on a
\* zero step, an index outside samples raises IndexError
waveform(pcm, num_samples) ==
  LET step == ceil_div(Len(pcm), num_samples)
      written == {i \div step : i \in range(Len(pcm), step)}
      top == np_max({samples_at(pcm, step, k) : k \in 0..(num_samples - 1)})
  IN IF step = 0
     THEN [kind |-> "raised", error |-> "ValueError", written |-> {}, samples |-> <<>>]
     ELSE IF ~(written \subseteq 0..(num_samples - 1))
     THEN [kind |-> "raised", error |-> "IndexError", written |-> written, samples |-> <<>>]
     ELSE [kind |-> "returned", error |-> "None", written |-> written,
           samples |-> [k \in 1..num_samples |->
                          np_divide(samples_at(pcm, step, k - 1), top)]]

\* the activity is run on decoded audio `data` with params.num_samples
waveform_call(pcm, num_samples) ==
  /\ call = NoCall
  /\ call' = [fn |-> "audio-waveform",
              arg |-> [data |-> pcm, num_samples |-> num_samples],
              out |-> waveform(pcm, num_samples)]
  /\ UNCHANGED <<request, pc, datadir, file, tasks, errors, aborting, results,
                 writes, invoked, err, outcome, getters, sent, other>>

NextWaveform == \E d \in AudioData, n \in 1..MaxSamples : waveform_call(d, n)

SpecWaveform == Init /\ [][NextWaveform]_vars

\* ------------------------------------------------------------- properties
Finished == pc \in {"returned", "raised"}
StagingFailed == err.type = "ActivityError"
TaskFailed == \E a \in Activities : tasks[a].st = "failed"

\* C1: whenever staging and every task of the requested set A succeed, run
\* returns a summary whose "result" has exactly the keys A
C1_SummaryKeysAreRequest ==
  (Finished /\ err = NoError /\ errors = <<>>) =>
     /\ outcome.kind = "returned"
     /\ DOMAIN outcome.value.result = request.activities

\* C2: when any task has failed, run does not return a summary: the job ends
\* by raising
C2_FailedTaskNoSummary ==
  TaskFailed => (pc # "returned" /\ (Finished => outcome.kind = "raised"))

C2_Witness ==
  /\ pc = "raised"
  /\ TaskFailed
  /\ \E a \in Activities : tasks[a].st = "succeeded" /\ a \in DOMAIN results

\* C3: a failing task aborts only itself: no sibling task is cancelled
C3_NoSiblingCancelled ==
  \A a \in Activities : tasks[a].st # "cancelled"

\* C4: a failed per-activity callback does not fail the task that fired it:
\* no task's exception is the callback's
C4_CallbackFailureNotFatal ==
  \A i \in 1..Len(errors) : errors[i].activity # "callback"

\* C5: a get that returned did so with its key written, holding the value
\* submit wrote under that key; a waiting get whose key is present can return
C5_GetAfterWrite ==
  \A g \in Getters :
    /\ getters[g].st = "returned" =>
         /\ getters[g].key \in DOMAIN results
         /\ writes[getters[g].key] >= 1
         /\ getters[g].val = results[getters[g].key]
    /\ (getters[g].st = "waiting" /\ getters[g].key \in DOMAIN results) =>
         ENABLED get_return(g)

C5_Witness ==
  \E g \in Getters :
    /\ getters[g].st = "returned"
    /\ pc = "taskgroup"
    /\ getters[g].val \in Values
    /\ \E a \in Activities : tasks[a].st \in Live

\* C6: every key of the result dictionary is assigned at most once
C6_WrittenAtMostOnce ==
  \A k \in Activities : writes[k] <= 1

C6_Witness ==
  /\ Cardinality(DOMAIN results) = 2
  /\ \A k \in DOMAIN results : writes[k] = 1

\* C7: the keys of the result dictionary are among the requested names
C7_KeysRequested ==
  DOMAIN results \subseteq request.activities

C7_Witness ==
  /\ DOMAIN results # {}
  /\ DOMAIN results # request.activities
  /\ Finished

\* C8: a key of the result dictionary stays, with its value, in every later
\* state, also when the job has failed; a get that returns then returns it
C8_ResultsStable ==
  [][ /\ \A k \in DOMAIN results :
            k \in DOMAIN results' /\ results'[k] = results[k]
      /\ \A g \in Getters :
            (getters[g].st = "returned") =>
               /\ getters'[g] = getters[g]
               /\ getters[g].val = results'[getters[g].key] ]_vars

C8_Witness ==
  \E g \in Getters :
    /\ pc = "raised"
    /\ TaskFailed
    /\ getters[g].st = "returned"
    /\ getters[g].late
    /\ getters[g].val = results[getters[g].key]

\* C9: when staging fails no task is started, no invocation of a task and no
\* write of a result occurs, and the job ends raising the staging error
C9_StagingFailureStartsNothing ==
  StagingFailed =>
     /\ \A a \in Activities : tasks[a].st = "none"
     /\ \A n \in TaskInvocations : invoked[n] = 0
     /\ results = <<>>
     /\ \A k \in Activities : writes[k] = 0
     /\ pc \in {"failcallback", "raised"}
     /\ pc = "raised" => (outcome.kind = "raised" /\ outcome.value = err)

\* C10 as stated: tasks' invocations start only after the download returned,
\* and the download is invoked exactly once in every job
C10_DownloadExactlyOnce ==
  /\ \A n \in TaskInvocations : invoked[n] > 0 => file # None
  /\ \A a \in Activities : tasks[a].st # "none" => file # None
  /\ Finished => invoked["utils.download"] = 1

\* C10 amended: tasks' invocations start only after the download returned;
\* the download is invoked at most once, exactly once when datadir returned
C10_DownloadAtMostOnce ==
  /\ \A n \in TaskInvocations : invoked[n] > 0 => file # None
  /\ \A a \in Activities : tasks[a].st # "none" => file # None
  /\ invoked["utils.download"] <= 1
  /\ datadir # None <=> invoked["utils.download"] = 1
  /\ file # None => invoked["utils.download"] = 1

C10_Witness ==
  /\ file # None
  /\ invoked["utils.download"] = 1
  /\ \E n \in TaskInvocations : invoked[n] > 0
  /\ \E a \in Activities : tasks[a].st \in Live

JobFailed == pc \in {"failcallback", "raised"}
HasCallback == request.callback # None

\* number of callback bodies in b, with their repetitions
RECURSIVE Total(_)
Total(b) ==
  IF DOMAIN b = {} THEN 0
  ELSE LET p == CHOOSE q \in DOMAIN b : TRUE
       IN b[p] + Total([q \in DOMAIN b \ {p} |-> b[q]])

\* the per-activity callbacks started for key k
FiredFor(k) == {p \in DOMAIN sent.result : k \in DOMAIN p.result}

\* C11: a task that ended failed has no entry in the result dictionary under
\* its name, and no per-activity callback was started for it
C11_FailedTaskLeavesNothing ==
  \A a \in Activities :
    tasks[a].st = "failed" => (a \notin DOMAIN results /\ FiredFor(a) = {})

\* C12: with a callback URL, each written key has exactly one per-activity
\* callback, whose "result" is that one key with the value written; no other
\* per-activity callback is started
C12_OneCallbackPerResult ==
  HasCallback =>
    /\ \A k \in DOMAIN results :
         /\ FiredFor(k) = {[id |-> WorkflowId, request |-> request,
                            result |-> [n \in {k} |-> results[k]]]}
         /\ \A p \in FiredFor(k) : sent.result[p] = 1
    /\ \A p \in DOMAIN sent.result :
         \E k \in DOMAIN results : p \in FiredFor(k)
    /\ Total(sent.result) = Cardinality(DOMAIN results)

C12_Witness ==
  /\ HasCallback
  /\ Cardinality(DOMAIN results) = 2
  /\ Total(sent.result) = 2
  /\ \E a \in Activities : tasks[a].st = "succeeded"

\* C13 as stated: with a callback URL, a finished job has started exactly one
\* job-end callback, whether it returned its summary or raised
C13_OneJobEndCallback ==
  (HasCallback /\ Finished) => Total(sent.error) = 1

\* C13 amended: with a callback URL, a job that ends by raising has started
\* exactly one job-end callback, carrying its error; a job that returns its
\* summary has started none: every callback it started is a per-activity one
C13_JobEndCallbackOnFailureOnly ==
  HasCallback =>
    /\ JobFailed =>
         (Total(sent.error) = 1 /\ \A p \in DOMAIN sent.error : p.error = str(err))
    /\ pc = "returned" =>
         /\ sent.error = <<>>
         /\ invoked["callback"] = Cardinality(DOMAIN results)

C13_Witness ==
  /\ HasCallback
  /\ pc = "returned"
  /\ Cardinality(DOMAIN results) = 2
  /\ invoked["callback"] = 2

\* C14: over the whole job at most one failure callback is started; a job
\* that failed with a callback URL has started exactly one, with the body
\* {id, request, error} of the request as submitted and str(err)
C14_OneFailureCallback ==
  /\ Total(sent.error) <= 1
  /\ ~HasCallback => sent.error = <<>>
  /\ (HasCallback /\ JobFailed) =>
       /\ DOMAIN sent.error =
            {[id |-> WorkflowId, request |-> request, error |-> str(err)]}
       /\ \A p \in DOMAIN sent.error : sent.error[p] = 1

C14_Witness ==
  /\ HasCallback
  /\ pc = "raised"
  /\ TaskFailed
  /\ Total(sent.error) = 1
  /\ Total(sent.result) >= 1

\* C15: when tasks failed, the error of the job is the first task failure
\* and names the activity that failed
C15_FirstFailureIsJobError ==
  (JobFailed /\ errors # <<>>) =>
     /\ err.type = "ActivityError"
     /\ err.task = errors[1].task

\* C16: a request with no activity name, or with an unrecognised one, is
\* rejected before staging: nothing is staged and no summary is returned
C16_BadRequestRejected ==
  (request.activities = {} \/ ~(request.activities \subseteq Activities)) =>
     /\ datadir = None
     /\ file = None
     /\ outcome.kind # "returned"

\* C17: a get does not stay blocked once the job has failed: when run has
\* raised, every waiting get can return
C17_GetReleasedByFailure ==
  \A g \in Getters :
    (getters[g].st = "waiting" /\ pc = "raised") => ENABLED get_return(g)

\* C18: when run has its outcome (and already in its except block) no task
\* it started is still running
C18_NoTaskOutlivesJob ==
  (Finished \/ JobFailed) => \A a \in Activities : tasks[a].st \notin Live

C18_Witness ==
  /\ Finished
  /\ \E a \in Activities : tasks[a].st = "cancelled"
  /\ \E a \in Activities : tasks[a].st = "failed"

\* C19: when the job's timeout passes, the running tasks are cancelled and
\* the job ends failed with a timeout error, reported by the failure
\* callback when a callback URL was given
C19_TimeoutReported ==
  pc = "timedout" =>
     /\ \A a \in Activities : tasks[a].st \notin Live
     /\ outcome.kind = "raised"
     /\ HasCallback => Total(sent.error) = 1

\* C20: once the tasks are created, every requested name has its one task
\* and no other name has a task
C20_OneTaskPerRequestedName ==
  pc \in {"taskgroup", "failcallback", "returned", "raised"} =>
     /\ \A n \in request.activities : n \in Activities /\ tasks[n].st # "none"
     /\ \A a \in Activities \ request.activities : tasks[a].st = "none"

\* C21: submit with a key the dictionary already has fails with a
\* duplicate-key error and leaves the stored value as it was
C21_DuplicateKeyRejected ==
  [][ \A k \in DOMAIN results :
        writes'[k] # writes[k] =>
           (results'[k] = results[k] /\ err'.type = "DuplicateKeyError") ]_vars

\* C22: of two instances run from one request, each has its own dictionary:
\* only an instance's own tasks add a key to it or change a value of it, and
\* a get on an instance returns what a task of that instance wrote
C22_StoresIndependent ==
  /\ [](/\ DOMAIN results = {k \in Activities : writes[k] > 0}
        /\ DOMAIN other.results = other.written
        /\ other.got # <<>> =>
             /\ other.got[1] \in other.written
             /\ other.got[2] = other.results[other.got[1]]
        /\ \A g \in Getters :
             getters[g].st = "returned" =>
                /\ writes[getters[g].key] > 0
                /\ getters[g].val = results[getters[g].key])
  /\ [][ /\ results' # results => writes' # writes
         /\ other.results' # other.results => other.written' # other.written ]_vars

C22_Witness ==
  /\ other.got # <<>>
  /\ \E g \in Getters : getters[g].st = "returned" /\ getters[g].key = other.got[1]
                        /\ getters[g].val # other.got[2]
  /\ \E k \in DOMAIN results \cap DOMAIN other.results : results[k] # other.results[k]
  /\ DOMAIN results # DOMAIN other.results

\* C23: the request is never changed, and the request field of the summary,
\* of every per-activity callback body and of every failure callback body is
\* the request run was called with
C23_RequestEchoed ==
  /\ [](/\ pc = "returned" => outcome.value.request = request
        /\ \A p \in DOMAIN sent.result \cup DOMAIN sent.error : p.request = request)
  /\ [][request' = request]_vars

C23_Witness ==
  /\ pc = "returned"
  /\ HasCallback
  /\ Cardinality(DOMAIN sent.result) >= 2
  /\ outcome.value.request.callback = "http://cb"

\* C24: when the callback of the except block fails, run still raises the
\* exception it caught, not the exception of the callback
C24_OriginalErrorRaised ==
  pc = "raised" => outcome.value = err

\* C26: the key is in the dictionary whenever its callback has been started;
\* with a callback URL a task is done only once its callback returned; a get
\* on a key whose callback is still awaited can return; and run leaves the
\* TaskGroup only when no task awaits its callback
C26_WriteCallbackOrder ==
  /\ [](/\ \A a \in Activities :
             (FiredFor(a) # {} \/ tasks[a].st = "callback") => a \in DOMAIN results
        /\ \A g \in Getters :
             (getters[g].st = "waiting" /\ tasks[getters[g].key].st = "callback")
                => ENABLED get_return(g)
        /\ pc # "taskgroup" => \A a \in Activities : tasks[a].st # "callback")
  /\ [][ \A a \in Activities :
           (HasCallback /\ tasks'[a].st = "succeeded" /\ tasks[a].st # "succeeded")
              => tasks[a].st = "callback" ]_vars

C26_Witness ==
  \E g \in Getters :
    /\ getters[g].st = "returned"
    /\ tasks[getters[g].key].st = "callback"
    /\ pc = "taskgroup"

\* C29: without a callback URL the callback activity is never started, by
\* submit or by the except block
C29_NoUrlNoCallback ==
  ~HasCallback =>
     /\ invoked["callback"] = 0
     /\ sent.result = <<>> /\ sent.error = <<>>
     /\ pc # "failcallback"
     /\ \A a \in Activities : tasks[a].st # "callback"

C29_Witness ==
  /\ ~HasCallback
  /\ pc = "raised"
  /\ results # <<>>
  /\ err.type = "ExceptionGroup"

C27_ConcurrentGets ==
  /\ [](/\ \A g \in DOMAIN getters :
             (getters[g].st = "waiting" /\ getters[g].key \in DOMAIN results)
                => ENABLED get_return(g)
        /\ \A g \in DOMAIN getters :
             getters[g].st = "returned" => getters[g].key \in DOMAIN results
        /\ \A g, h \in DOMAIN getters :
             (/\ getters[g].st = "returned" /\ getters[h].st = "returned"
              /\ getters[g].key = getters[h].key) => getters[g].val = getters[h].val)
  /\ [][ \A g \in DOMAIN getters :
           (getters[g].st = "waiting" /\ getters'[g].st = "returned") =>
              /\ getters[g].key \in DOMAIN results
              /\ getters'[g].val = results[getters[g].key] ]_vars

C27_Witness ==
  /\ getters[1].st = "returned" /\ getters[1].key = "video-metadata"
  /\ getters[2].st = "waiting" /\ getters[2].key = "video-sprite"
  /\ "video-sprite" \notin DOMAIN results
  /\ request.activities = GetKeys

\* C28: with every started invocation returning or failing and every
\* coroutine scheduled, run returns or raises
C28_JobTerminates == <>Finished

C28_Witness ==
  /\ Finished
  /\ \E a \in Activities : tasks[a].st = "cancelled"
  /\ \E a \in Activities : tasks[a].st = "failed" /\ writes[a] = 1

\* C30: the callback activity fails exactly when no response arrives or the
\* status of the response is outside 200..299
C30_Every2xxDelivered ==
  call.fn = "callback" =>
     (call.out = "raised" <=>
        (call.arg.kind = "error" \/ call.arg.status \notin 200..299))

\* C31: each of the three postprocess steps, run on an all-ASCII output with
\* English requested, accepts it: an all-ASCII output is rejected only when
\* the requested language is not English
C31_AsciiRejectedOnlyNonEnglish ==
  (/\ call.fn \in {"image_analysis_basic", "image_analysis_tags", "image_analysis_details"}
   /\ call.arg.ascii
   /\ call.out = "raised") => lower(call.arg.language) # "english"

\* an entry of the normalized result that is 1.0, and one that is a number
\* not above 1.0
IsOne(v) == v.kind = "num" /\ v.num = v.den
AtMostOne(v) ==
  v.kind = "num" /\ (IF v.den > 0 THEN v.num <= v.den ELSE v.num >= v.den)

\* C32: for every audio input of at least one sample and every
\* num_samples >= 1 the waveform is returned with num_samples entries, every
\* index the loop wrote is in 0..num_samples-1, and the largest entry of the
\* result is 1.0
C32_WaveformNormalized ==
  (call.fn = "audio-waveform" /\ call.arg.data # <<>>) =>
     /\ call.out.kind = "returned"
     /\ Len(call.out.samples) = call.arg.num_samples
     /\ call.out.written \subseteq 0..(call.arg.num_samples - 1)
     /\ \E k \in 1..Len(call.out.samples) : IsOne(call.out.samples[k])
     /\ \A k \in 1..Len(call.out.samples) : AtMostOne(call.out.samples[k])

====
